---- MODULE Spec2Model ----
(***************************************************************************)
(* Model of drop_script.py: a driver that runs a table of diagnostic       *)
(* commands once, then repeatedly runs a second table, merges the captured *)
(* output into one mapping and writes the mapping to a timestamped file.   *)
(*                                                                         *)
(* Text is modelled as a sequence of one-character strings, so that        *)
(* str.strip, int() and strftime are computed and not assumed.  A captured *)
(* stdout is a record [out, rnd]: out is the text, rnd is a history field  *)
(* recording the sampling round in which the text was captured (0 for the  *)
(* run-once phase).                                                        *)
(***************************************************************************)
EXTENDS Integers, Sequences, FiniteSets, TLC

VARIABLES
    args,           \* parsed command line: time_interval, num_runs, output_dir, leader
    clock,          \* the device's clock, in whole seconds since the epoch
    dirExists,      \* whether args.output_dir exists in the filesystem
    files,          \* the filesystem below output_dir: path -> mapping written
    pc,             \* position of the driver
    cmdTable,       \* runCommands: the table being run (labels in dict order)
    cmdIdx,         \* runCommands: position of the launch loop in cmdTable
    procHandles,    \* runCommands: labels launched so far, in dict order
    joinIdx,        \* runCommands: position of the join loop in procHandles
    procOutput,     \* runCommands: label -> captured stdout
    commandOutput,  \* __main__: the accumulating mapping
    run_counter,    \* __main__: number of the current round (0: run-once phase)
    finished,       \* __main__: loop flag
    error,          \* the exception that ended the program, or "none"
    killed,         \* history: labels whose process was killed on timeout
    skipped,        \* history: labels skipped as missing in the current call
    nMissing,       \* history: number of launches that failed so far
    calls,          \* history: number of runCommands calls per table
    joined,         \* history: every successful join, [round, label, val]
    trace,          \* history: launch/skip/join events of the current call
    writes          \* history: every snapshot write, [round, path, map]

vars == <<args, clock, dirExists, files, pc, cmdTable, cmdIdx, procHandles,
          joinIdx, procOutput, commandOutput, run_counter, finished, error,
          killed, skipped, nMissing, calls, joined, trace, writes>>

---------------------------------------------------------------------------
(* Bounds of the model *)

MaxRuns == 2        \* num_runs ranges over 0..MaxRuns
MaxInterval == 1    \* time_interval ranges over 0..MaxInterval
MaxMissing == 1     \* launches that may fail with FileNotFoundError in a run
StartClock == 58    \* clock value when the program starts

---------------------------------------------------------------------------
(* Text helpers *)

Range(s) == {s[i] : i \in DOMAIN s}

IsSpace(c) == c \in {" ", "\n", "\t", "\r"}

RECURSIVE LStrip(_)
LStrip(s) == IF s # <<>> /\ IsSpace(Head(s)) THEN LStrip(Tail(s)) ELSE s

RECURSIVE RStrip(_)
RStrip(s) ==
    IF s # <<>> /\ IsSpace(s[Len(s)]) THEN RStrip(SubSeq(s, 1, Len(s) - 1)) ELSE s

\* str.strip()
Strip(s) == RStrip(LStrip(s))

Digits == <<"0", "1", "2", "3", "4", "5", "6", "7", "8", "9">>

RECURSIVE IntToStr(_)
IntToStr(n) ==
    IF n < 10 THEN <<Digits[n + 1]>>
    ELSE Append(IntToStr(n \div 10), Digits[(n % 10) + 1])

DigitVal(c) == CHOOSE d \in 0..9 : Digits[d + 1] = c

RECURSIVE DigitsToInt(_)
DigitsToInt(s) ==
    IF s = <<>> THEN 0
    ELSE 10 * DigitsToInt(SubSeq(s, 1, Len(s) - 1)) + DigitVal(s[Len(s)])

\* int(text): surrounding whitespace is ignored
ParseInt(s) == DigitsToInt(Strip(s))

\* two-digit, zero-padded field of strftime
TwoDigits(n) == <<Digits[((n \div 10) % 10) + 1], Digits[(n % 10) + 1]>>

IsLeap(y) == (y % 4 = 0 /\ y % 100 # 0) \/ y % 400 = 0

YearLen(y) == IF IsLeap(y) THEN 366 ELSE 365

MonthLen(y, m) ==
    IF m = 2 THEN (IF IsLeap(y) THEN 29 ELSE 28)
    ELSE IF m \in {4, 6, 9, 11} THEN 30 ELSE 31

\* <<year, day of year (from 0)>> of a day count starting at 1 January of y
RECURSIVE YearOf(_, _)
YearOf(days, y) ==
    IF days < YearLen(y) THEN <<y, days>> ELSE YearOf(days - YearLen(y), y + 1)

\* <<month, day of month>> of a day of year
RECURSIVE MonthOf(_, _, _)
MonthOf(y, yday, m) ==
    IF yday < MonthLen(y, m) THEN <<m, yday + 1>>
    ELSE MonthOf(y, yday - MonthLen(y, m), m + 1)

\* datetime.fromtimestamp(t).strftime("%y%m%d-%H%M%S"), for a host in UTC
Strftime(t) ==
    LET yd == YearOf(t \div 86400, 1970)
        md == MonthOf(yd[1], yd[2], 1)
        secs == t % 86400
    IN  TwoDigits(yd[1] % 100) \o TwoDigits(md[1]) \o TwoDigits(md[2]) \o <<"-">>
        \o TwoDigits(secs \div 3600) \o TwoDigits((secs \div 60) % 60)
        \o TwoDigits(secs % 60)

---------------------------------------------------------------------------
(* The command tables.  A table is modelled by its labels in dict order;   *)
(* the argv lists are handed to the operating system unchanged.  The       *)
(* enumerations of cards, NPU instances and bundle members are taken over  *)
(* their first element.                                                    *)

Cards == <<0>>
NpuInsts == <<0>>
MemberPorts == <<"2">>
MemberBreakouts == <<"0">>

RECURSIVE Concat(_)
Concat(ss) == IF ss = <<>> THEN <<>> ELSE Head(ss) \o Concat(Tail(ss))

\* d[k] = ..., on the key order of a dict: a new key goes last
DictKeySet(keys, k) == IF k \in Range(keys) THEN keys ELSE Append(keys, k)

RECURSIVE DictKeySetAll(_, _)
DictKeySetAll(keys, new) ==
    IF new = <<>> THEN keys
    ELSE DictKeySetAll(DictKeySet(keys, Head(new)), Tail(new))

bundlemembers ==
    Concat([p \in DOMAIN MemberPorts |->
        [b \in DOMAIN MemberBreakouts |->
            "TenGigE0_11_0_" \o MemberPorts[p] \o "_" \o MemberBreakouts[b]]])

ClearLabels(card) ==
    [n \in DOMAIN NpuInsts |->
        "clear_command_" \o ToString(card) \o "_" \o ToString(NpuInsts[n])]

NpuLabels(card, npu_inst) ==
    LET sfx == ToString(card) \o "_" \o ToString(npu_inst)
    IN  <<"npu_drops" \o sfx, "dvoq_check" \o sfx,
          "oq_debug_full" \o sfx, "summ_ctrs" \o sfx>>

CardLoopLabels(card) ==
    [m \in DOMAIN bundlemembers |-> "voqs_member" \o bundlemembers[m]]
    \o Concat([n \in DOMAIN NpuInsts |-> NpuLabels(card, NpuInsts[n])])

runOnceCmdTable ==
    DictKeySetAll(
        <<"showVersion", "showIntf", "showInv", "etcHostname", "showNpuSlice">>,
        Concat([c \in DOMAIN Cards |-> ClearLabels(Cards[c])]))

\* a loop table whose second entry reuses a label of the run-once table
loopCmdTable_Clash ==
    DictKeySetAll(
        <<"timestamp", "showVersion">>,
        Concat([c \in DOMAIN Cards |-> CardLoopLabels(Cards[c])]))

loopCmdTable ==
    DictKeySetAll(
        <<"timestamp", "showPolMapInt">>,
        Concat([c \in DOMAIN Cards |-> CardLoopLabels(Cards[c])]))

---------------------------------------------------------------------------
(* Inputs *)

Leaders == {<<>>, <<"l", "a", "b", "-">>}

DefaultOutputDir == <<"/", "v", "a", "r", "/", "x", "r", "/", "d", "i", "s", "k", "1",
                          "/", "e", "n", "v", "S", "n", "a", "p", "s">>

\* whole seconds the clock advances during a round, besides the sleep: the
\* round ends within the second in which it started, or in the next one
RoundSeconds == {0, 1}

\* what `cat /etc/hostname` may print
Hostnames == {<<"r", "1", "\n">>, <<" ", "r", "2">>}

\* what a command prints: `date +%s` prints the clock, `cat /etc/hostname` the
\* host name h, every other command a text of its own for each round
Stdout(label, round, now, h) ==
    [out |-> IF label = "timestamp" THEN Append(IntToStr(now), "\n")
             ELSE IF label = "etcHostname" THEN h
             ELSE <<label, ToString(round)>>,
     rnd |-> round]

HostChoices(label) == IF label = "etcHostname" THEN Hostnames ELSE {<<>>}

---------------------------------------------------------------------------
(* Dictionaries: a dict is a function on its set of keys *)

EmptyDict == [k \in {} |-> <<>>]

DictSet(d, k, v) == [x \in DOMAIN d \cup {k} |-> IF x = k THEN v ELSE d[x]]

\* an update that keeps the value of a key already present
DictUpdate_KeepOld(d, u) ==
    [x \in DOMAIN d \cup DOMAIN u |-> IF x \in DOMAIN d THEN d[x] ELSE u[x]]

\* dict.update(u)
DictUpdate(d, u) ==
    [x \in DOMAIN d \cup DOMAIN u |-> IF x \in DOMAIN u THEN u[x] ELSE d[x]]

---------------------------------------------------------------------------
(* getOutputfile and saveJsonXz *)

\* the path built by getOutputfile from a mapping holding both keys
OutputPath(a, co) ==
    LET timestamp == Strftime(ParseInt(co["timestamp"].out))
        filename_leader == a.leader \o Strip(co["etcHostname"].out)
        out_fname == filename_leader \o <<"_", "c", "m", "d", "s", "_">> \o timestamp
                     \o <<".", "j", "s", "o", "n", ".", "x", "z">>
    IN  a.output_dir \o <<"/">> \o out_fname

\* lzma.open(filename, "wt") and json.dump: the file is created or replaced
WriteFile(fs, filename, cmdOutput) == DictSet(fs, filename, cmdOutput)

---------------------------------------------------------------------------
(* The driver *)

\* the call runCommands(table): fresh locals
StartRunCommands(table) ==
    /\ cmdTable' = table
    /\ cmdIdx' = 1
    /\ procHandles' = <<>>
    /\ joinIdx' = 1
    /\ procOutput' = EmptyDict
    /\ skipped' = {}
    /\ trace' = <<>>
    /\ pc' = IF table = <<>> THEN "join" ELSE "launch"

Init ==
    /\ args \in [time_interval : 0..MaxInterval, num_runs : 0..MaxRuns,
                 output_dir : {DefaultOutputDir}, leader : Leaders]
    /\ clock = StartClock
    /\ dirExists = FALSE     \* first run on the device: line 26 creates it
    /\ files = EmptyDict
    /\ cmdTable = runOnceCmdTable
    /\ cmdIdx = 1
    /\ procHandles = <<>>
    /\ joinIdx = 1
    /\ procOutput = EmptyDict
    /\ pc = "launch"
    /\ commandOutput = EmptyDict
    /\ run_counter = 0
    /\ finished = FALSE
    /\ error = "none"
    /\ killed = {}
    /\ skipped = {}
    /\ nMissing = 0
    /\ calls = [once |-> 1, loop |-> 0]
    /\ joined = {}
    /\ trace = <<>>
    /\ writes = <<>>

AfterLaunch == IF cmdIdx = Len(cmdTable) THEN "join" ELSE "launch"

\* line 57: Popen succeeds
LaunchOk ==
    /\ pc = "launch"
    /\ cmdIdx <= Len(cmdTable)
    /\ procHandles' = DictKeySet(procHandles, cmdTable[cmdIdx])
    /\ trace' = Append(trace, <<"launch", cmdTable[cmdIdx]>>)
    /\ cmdIdx' = cmdIdx + 1
    /\ pc' = AfterLaunch
    /\ UNCHANGED <<args, clock, dirExists, files, cmdTable, joinIdx, procOutput,
                   commandOutput, run_counter, finished, error, killed, skipped,
                   nMissing, calls, joined, writes>>

\* lines 58-59: Popen raises FileNotFoundError, the command is skipped
LaunchMissing ==
    /\ pc = "launch"
    /\ cmdIdx <= Len(cmdTable)
    /\ nMissing < MaxMissing
    /\ nMissing' = nMissing + 1
    /\ skipped' = skipped \cup {cmdTable[cmdIdx]}
    /\ trace' = Append(trace, <<"skip", cmdTable[cmdIdx]>>)
    /\ cmdIdx' = cmdIdx + 1
    /\ pc' = AfterLaunch
    /\ UNCHANGED <<args, clock, dirExists, files, cmdTable, procHandles, joinIdx,
                   procOutput, commandOutput, run_counter, finished, error, killed,
                   calls, joined, writes>>

\* a join loop that visits the handles last to first
JoinTarget_Reverse(handles, i) == handles[Len(handles) - i + 1]

\* line 60: the handle the join loop visits at position i
JoinTarget(handles, i) == handles[i]

\* line 62: communicate returns the command's stdout
JoinOk ==
    /\ pc = "join"
    /\ joinIdx <= Len(procHandles)
    /\ LET handle == JoinTarget(procHandles, joinIdx)
       IN  \E h \in HostChoices(handle) :
             LET val == Stdout(handle, run_counter, clock, h)
             IN  /\ procOutput' = DictSet(procOutput, handle, val)
                 /\ joined' = joined \cup
                        {[round |-> run_counter, label |-> handle, val |-> val]}
                 /\ trace' = Append(trace, <<"join", handle>>)
    /\ joinIdx' = joinIdx + 1
    /\ UNCHANGED <<args, clock, dirExists, files, pc, cmdTable, cmdIdx, procHandles,
                   commandOutput, run_counter, finished, error, killed, skipped,
                   nMissing, calls, writes>>

\* a handler that kills the process and goes on with the next handle
OnTimeout_Swallow == "continue"

\* what the driver does when communicate times out
OnTimeout == "raise"

\* lines 63-65: communicate times out; the process is killed and TimeoutError
\* leaves runCommands and, uncaught, the program
JoinTimeout ==
    /\ pc = "join"
    /\ joinIdx <= Len(procHandles)
    /\ killed' = killed \cup {JoinTarget(procHandles, joinIdx)}
    /\ trace' = Append(trace, <<"timeout", JoinTarget(procHandles, joinIdx)>>)
    /\ IF OnTimeout = "raise"
       THEN /\ error' = "TimeoutError"
            /\ pc' = "error"
            /\ UNCHANGED joinIdx
       ELSE /\ joinIdx' = joinIdx + 1
            /\ UNCHANGED <<error, pc>>
    /\ UNCHANGED <<args, clock, dirExists, files, cmdTable, cmdIdx, procHandles,
                   procOutput, commandOutput, run_counter, finished, skipped,
                   nMissing, calls, joined, writes>>

\* line 60: the join loop has visited every handle, runCommands returns
JoinsDone == pc = "join" /\ joinIdx > Len(procHandles)

\* lines 66, 115-120: runCommands(runOnceCmdTable) returns; the loop is entered
\* and the first round starts
ReturnOnce ==
    /\ JoinsDone
    /\ run_counter = 0
    /\ commandOutput' = procOutput
    /\ finished' = FALSE
    /\ run_counter' = 1
    /\ calls' = [calls EXCEPT !.loop = @ + 1]
    /\ StartRunCommands(loopCmdTable)
    /\ UNCHANGED <<args, clock, dirExists, files, error, killed, nMissing, joined,
                   writes>>

\* lines 66, 120-122: runCommands(loopCmdTable) returns, the mapping is updated,
\* the path is built and the snapshot is written
SaveSnapshot ==
    /\ JoinsDone
    /\ run_counter >= 1
    /\ LET co == DictUpdate(commandOutput, procOutput)
       IN  /\ commandOutput' = co
           /\ dirExists' = TRUE
           /\ IF "timestamp" \in DOMAIN co /\ "etcHostname" \in DOMAIN co
              THEN LET output_fullpath == OutputPath(args, co)
                   IN  /\ files' = WriteFile(files, output_fullpath, co)
                       /\ writes' = Append(writes, [round |-> run_counter,
                                                    path |-> output_fullpath,
                                                    map |-> co])
                       /\ pc' = "test"
                       /\ UNCHANGED error
              ELSE \* lines 28, 30: KeyError
                   /\ error' = "KeyError"
                   /\ pc' = "error"
                   /\ UNCHANGED <<files, writes>>
    /\ UNCHANGED <<args, clock, cmdTable, cmdIdx, procHandles, joinIdx, procOutput,
                   run_counter, finished, killed, skipped, nMissing, calls, joined,
                   trace>>

\* a loop test that is off by one
RunsDone_OffByOne(counter, num_runs) == counter > num_runs

\* line 123: are we done?
RunsDone(counter, num_runs) == counter >= num_runs

\* lines 123-124, 118, 128: the loop ends and the program exits
LoopFinish ==
    /\ pc = "test"
    /\ RunsDone(run_counter, args.num_runs)
    /\ finished' = TRUE
    /\ pc' = "done"
    /\ UNCHANGED <<args, clock, dirExists, files, cmdTable, cmdIdx, procHandles,
                   joinIdx, procOutput, commandOutput, run_counter, error, killed,
                   skipped, nMissing, calls, joined, trace, writes>>

\* lines 125-126, 118-120: sleep, then the next round starts.  The clock has
\* advanced by the sleep and by the time the round took.
LoopSleep ==
    /\ pc = "test"
    /\ ~RunsDone(run_counter, args.num_runs)
    /\ \E d \in RoundSeconds : clock' = clock + args.time_interval + d
    /\ run_counter' = run_counter + 1
    /\ calls' = [calls EXCEPT !.loop = @ + 1]
    /\ StartRunCommands(loopCmdTable)
    /\ UNCHANGED <<args, dirExists, files, commandOutput, finished, error, killed,
                   nMissing, joined, writes>>

Next ==
    \/ LaunchOk
    \/ LaunchMissing
    \/ JoinOk
    \/ JoinTimeout
    \/ ReturnOnce
    \/ SaveSnapshot
    \/ LoopFinish
    \/ LoopSleep

Spec == Init /\ [][Next]_vars

---------------------------------------------------------------------------
(* Properties *)

\* the rounds whose snapshot step (lines 120-122) has been passed
CompletedRounds ==
    IF pc \in {"test", "done"} THEN 1..run_counter ELSE 1..(run_counter - 1)

WritesOfRound(r) == {i \in DOMAIN writes : writes[i].round = r}

\* the successful joins of round r
JoinedIn(r) == {j \in joined : j.round = r}

\* C1: with num_runs = 0 the loop runs forever; in particular the finished
\* flag is never set.
C1_ZeroRunsForever == args.num_runs = 0 => ~finished

\* C2: every completed round performs exactly one snapshot write, and the
\* mapping written in a round holds, under its label, the stdout of every
\* command of the run-once table and of that round's loop table that was
\* launched and joined.
C2_OneWritePerRound ==
    /\ \A r \in CompletedRounds : Cardinality(WritesOfRound(r)) = 1
    /\ \A i \in DOMAIN writes :
         /\ writes[i].round \in CompletedRounds
         /\ \A j \in JoinedIn(0) \cup JoinedIn(writes[i].round) :
              /\ j.label \in DOMAIN writes[i].map
              /\ writes[i].map[j.label] = j.val
    /\ writes # <<>> =>
         /\ writes[Len(writes)].path \in DOMAIN files
         /\ files[writes[Len(writes)].path] = writes[Len(writes)].map

W_C2 ==
    /\ pc = "test"
    /\ Len(writes) = 2
    /\ Cardinality(JoinedIn(2)) = Len(loopCmdTable)

\* C3: a missing command is skipped without an error, whichever label it is:
\* the other commands are launched and collected, the mapping returned lacks
\* the label, and no exception ends the round.
C3_MissingSilentlySkipped ==
    /\ skipped \cap Range(procHandles) = {}
    /\ skipped \cap DOMAIN procOutput = {}
    /\ pc = "join" => Range(procHandles) \cup skipped = Range(cmdTable)
    /\ (nMissing > 0 /\ killed = {}) => error = "none"

\* C4: a timeout is fatal.  Once a join has timed out the process is killed,
\* TimeoutError ends the program, the round in which it happened has no
\* snapshot, no further step is taken, and nothing collected in that call of
\* runCommands is in the mapping or in a file.
C4_TimeoutFatal ==
    killed # {} =>
        /\ error = "TimeoutError"
        /\ pc = "error"
        /\ ~finished
        /\ killed = {JoinTarget(procHandles, joinIdx)}
        /\ ~ENABLED Next
        /\ \A i \in DOMAIN writes : writes[i].round < run_counter
        /\ \A j \in JoinedIn(run_counter) :
             /\ ~(j.label \in DOMAIN commandOutput /\ commandOutput[j.label] = j.val)
             /\ \A p \in DOMAIN files :
                  ~(j.label \in DOMAIN files[p] /\ files[p][j.label] = j.val)

W_C4 ==
    /\ killed # {}
    /\ run_counter = 2
    /\ Len(writes) = 1
    /\ DOMAIN procOutput # {}

\* progress of the driver: the round, then the position within the round
Measure ==
    run_counter * (2 * (Len(runOnceCmdTable) + Len(loopCmdTable)) + 6)
    + (CASE pc = "launch" -> cmdIdx
         [] pc = "join" -> Len(cmdTable) + 1 + joinIdx
         [] pc = "test" -> 2 * Len(cmdTable) + 3
         [] OTHER -> 2 * Len(cmdTable) + 4)

C5_Rounds ==
    args.num_runs >= 1 =>
        /\ run_counter <= args.num_runs
        /\ calls.loop = run_counter
        /\ Len(writes) = Cardinality(CompletedRounds)
        /\ finished <=> pc = "done"
        /\ finished =>
             /\ run_counter = args.num_runs
             /\ calls.loop = args.num_runs
             /\ Len(writes) = args.num_runs
        /\ (pc \notin {"done", "error"}) =>
             \/ ENABLED (LaunchOk \/ JoinOk \/ ReturnOnce \/ LoopFinish \/ LoopSleep)
             \/ (JoinsDone /\ run_counter >= 1)     \* SaveSnapshot has no other guard
        /\ (pc = "error") =>
             \/ killed # {}
             \/ "timestamp" \notin DOMAIN commandOutput
             \/ "etcHostname" \notin DOMAIN commandOutput

\* C5: for num_runs = n >= 1 the loop makes exactly n rounds (n calls of
\* runCommands on the loop table, n writes) and then ends, run_counter never
\* exceeding n, unless a command times out or the host name or the timestamp
\* is missing.  Ending: the driver can always step until it is done, and every
\* step increases a measure that n bounds.
C5_ExactlyNRounds ==
    /\ [](C5_Rounds)
    /\ [][Measure' > Measure]_vars

W_C5 ==
    /\ pc = "done"
    /\ args.num_runs = 2
    /\ Len(writes) = 2
    /\ calls.loop = 2

\* the path the claim names for a write of round r
NamedPath(hostOut, tsOut) ==
    args.output_dir \o <<"/">> \o args.leader \o Strip(hostOut)
    \o <<"_", "c", "m", "d", "s", "_">> \o Strftime(ParseInt(tsOut))
    \o <<".", "j", "s", "o", "n", ".", "x", "z">>

\* C6: the file of round k is named from the stripped output of the run-once
\* etcHostname command and from the timestamp sampled in the same round k.
C6_NameFromSameRound ==
    \A i \in DOMAIN writes :
        \E jh \in JoinedIn(0), jt \in JoinedIn(writes[i].round) :
            /\ jh.label = "etcHostname"
            /\ jt.label = "timestamp"
            /\ writes[i].path = NamedPath(jh.val.out, jt.val.out)

IsJoin(e) == e[1] \in {"join", "timeout"}

Labels(events) == [i \in DOMAIN events |-> events[i][2]]

\* C7: within a call of runCommands every command of the table is launched or
\* skipped before the first join, no launch follows a join, and the joins
\* visit the launched commands one at a time in launch order.
C7_LaunchAllThenJoin ==
    LET launches == SelectSeq(trace, LAMBDA e : e[1] = "launch")
        attempts == SelectSeq(trace, LAMBDA e : e[1] \in {"launch", "skip"})
        joins == SelectSeq(trace, IsJoin)
    IN  /\ \A i, k \in DOMAIN trace : (i < k /\ IsJoin(trace[i])) => IsJoin(trace[k])
        /\ joins # <<>> => Labels(attempts) = cmdTable
        /\ Len(joins) <= Len(launches)
        /\ Labels(joins) = SubSeq(Labels(launches), 1, Len(joins))

W_C7 ==
    /\ pc = "join"
    /\ run_counter = 1
    /\ joinIdx = 3
    /\ skipped # {}

\* C8: the run-once table is run once, before the first round, and never in a
\* round; no loop label is a run-once label, and every snapshot holds the
\* run-once outputs unchanged.
C8_RunOnceOnce ==
    /\ calls.once = 1
    /\ (run_counter = 0) <=> (cmdTable = runOnceCmdTable)
    /\ run_counter >= 1 => cmdTable = loopCmdTable
    /\ Range(runOnceCmdTable) \cap Range(loopCmdTable) = {}
    /\ \A j \in joined : j.label \in Range(runOnceCmdTable) => j.round = 0
    /\ \A i \in DOMAIN writes : \A j \in JoinedIn(0) :
         /\ j.label \in DOMAIN writes[i].map
         /\ writes[i].map[j.label] = j.val
         /\ writes[i].map[j.label].rnd = 0

W_C8 ==
    /\ Len(writes) = 2
    /\ "showVersion" \in DOMAIN writes[2].map
    /\ "etcHostname" \in DOMAIN writes[2].map

\* C9: every loop-table entry of the snapshot written in round k was captured
\* in round k.
C9_LoopEntriesFresh ==
    \A i \in DOMAIN writes :
        \A l \in DOMAIN writes[i].map \cap Range(loopCmdTable) :
            writes[i].map[l].rnd = writes[i].round

\* C10: distinct rounds write distinct paths: after k writes k files exist.
C10_DistinctPaths ==
    /\ Cardinality(DOMAIN files) = Len(writes)
    /\ \A i, k \in DOMAIN writes : i # k => writes[i].path # writes[k].path

====
